---- MODULE Spec2Model ----
(***************************************************************************)
(* Booking services backend: users, services and time-slot bookings kept   *)
(* in a relational store (SQLite through SQLAlchemy) behind FastAPI        *)
(* handlers.  The store is modelled as three tables keyed by the integer   *)
(* primary key; every handler of main.py is one action that performs the   *)
(* crud call(s) it makes and records the HTTP response it returns.         *)
(***************************************************************************)
EXTENDS Integers, Sequences, FiniteSets, TLC

\* ---------------------------------------------------------------- bounds
\* Largest primary key the bookings table hands out.
MaxBookings == 2
\* Instants are 0..MaxTime.
MaxTime == 2
\* Largest primary key of the users / services tables.
MaxUsers == 1
MaxServices == 2

\* Booking dates are 1..MaxDate.
MaxDate == 2
\* Number of users the startup data generator stores.
GenUsers == 2

\* Largest primary key of the users table where several users are stored.
MaxAccounts == 2

\* ------------------------------------------------------------- constants
\* Python None / SQL NULL / an absent JSON value.
None == -1

PENDING == "pending"
CONFIRMED == "confirmed"
CANCELLED == "cancelled"
COMPLETED == "completed"

\* models/booking.py BookingStatus
BookingStatus == {PENDING, CONFIRMED, CANCELLED, COMPLETED}

\* A status whitelist that also lets "archived" through.
valid_statuses_open == {"pending", "confirmed", "cancelled", "completed", "archived"}

\* main.py update_booking_status: valid_statuses
valid_statuses == {"pending", "confirmed", "cancelled", "completed"}

\* config.py Settings.MAX_PAGE_SIZE: read from the environment (default 1000).
\* The tables here hold a handful of rows, so the configuration modelled is the
\* one a table can exceed, MAX_PAGE_SIZE=1.
MAX_PAGE_SIZE == 1

\* Columns of the bookings table declared nullable=False that a request can
\* write (models/booking.py Booking).
NotNullColumns == {"booking_date", "start_time", "end_time", "total_price"}

\* Fields declared by the BookingUpdate schema.
BookingUpdate == {"booking_date", "start_time", "end_time", "notes", "total_price"}

\* Fields declared by the BookingCreate schema (BookingBase).
BookingCreate ==
    {"user_id", "service_id", "booking_date", "start_time", "end_time",
     "notes", "total_price"}

VARIABLES
    users,      \* users table: id -> [email, username]
    services,   \* services table: the set of stored ids
    bookings,   \* bookings table: id -> row
    resp,       \* the response of the last request handled (or the list a
                \* crud query returned to its last caller)
    pc,         \* position of each check-then-insert client
    local       \* what each check-then-insert client holds between its steps

vars == <<users, services, bookings, resp, pc, local>>

store == <<users, services, bookings>>

\* Clients that call check_availability and then create_booking.
Procs == {1, 2}

\* ------------------------------------------------------------- helpers
Max(S) == CHOOSE x \in S : \A y \in S : y <= x

\* Integer primary key without AUTOINCREMENT: SQLite assigns one more than the
\* largest key in the table, 1 for an empty table.
NextId(ids) == IF ids = {} THEN 1 ELSE Max(ids) + 1

Response(op, code, detail, id) ==
    [op |-> op, code |-> code, detail |-> detail, id |-> id]

\* dict.items() restricted to the keys in fs
Restrict(f, fs) == [k \in (DOMAIN f) \cap fs |-> f[k]]

\* ------------------------------------------------------------------ Init
\* An empty table.
EmptyTable == [id \in {} |-> None]

\* db.add(row); db.commit(): the table with the row stored under its key.
Insert(tbl, id, row) ==
    [i \in (DOMAIN tbl) \cup {id} |-> IF i = id THEN row ELSE tbl[i]]

\* db.delete(row); db.commit()
Remove(tbl, id) == [i \in (DOMAIN tbl) \ {id} |-> tbl[i]]

\* What a client holds before its first step.
NoLocal ==
    [user_id |-> None, service_id |-> None, start_time |-> None,
     end_time |-> None, available |-> FALSE]

\* ------------------------------------------------------------------ Init
\* The tables as create_all leaves them.  (The startup hook may fill empty
\* tables with generated rows: users with unique emails, bookings of stored
\* users and services in any of the four statuses; the requests below reach
\* such stores from the empty one.)
Init ==
    /\ users = EmptyTable
    /\ services = {}
    /\ bookings = EmptyTable
    /\ resp = Response("none", 0, "", None)
    /\ pc = [p \in Procs |-> "idle"]
    /\ local = [p \in Procs |-> NoLocal]

\* ============================================================ crud layer

\* check_availability with closed intervals: touching endpoints conflict.
check_availability_closed(tbl, service_id, start_time, end_time, exclude_booking_id) ==
    LET query ==
            {id \in DOMAIN tbl :
                /\ tbl[id].service_id = service_id
                /\ tbl[id].status \in {CONFIRMED, PENDING}
                /\ tbl[id].start_time <= end_time
                /\ tbl[id].end_time >= start_time}
        filtered ==
            IF exclude_booking_id # None /\ exclude_booking_id # 0
            THEN {id \in query : id # exclude_booking_id}
            ELSE query
    IN  Cardinality(filtered) = 0

\* check_availability where a booking that starts exactly at the proposed end
\* counts as a conflict.
check_availability_touching(tbl, service_id, start_time, end_time, exclude_booking_id) ==
    LET query ==
            {id \in DOMAIN tbl :
                /\ tbl[id].service_id = service_id
                /\ tbl[id].status \in {CONFIRMED, PENDING}
                /\ tbl[id].start_time <= end_time
                /\ tbl[id].end_time > start_time}
        filtered ==
            IF exclude_booking_id # None /\ exclude_booking_id # 0
            THEN {id \in query : id # exclude_booking_id}
            ELSE query
    IN  Cardinality(filtered) = 0

\* check_availability that never adds the exclusion filter.
check_availability_no_exclusion(tbl, service_id, start_time, end_time, exclude_booking_id) ==
    LET query ==
            {id \in DOMAIN tbl :
                /\ tbl[id].service_id = service_id
                /\ tbl[id].status \in {CONFIRMED, PENDING}
                /\ tbl[id].start_time < end_time
                /\ tbl[id].end_time > start_time}
    IN  Cardinality(query) = 0

\* check_availability without the status filter.
check_availability_any_status(tbl, service_id, start_time, end_time, exclude_booking_id) ==
    LET query ==
            {id \in DOMAIN tbl :
                /\ tbl[id].service_id = service_id
                /\ tbl[id].start_time < end_time
                /\ tbl[id].end_time > start_time}
        filtered ==
            IF exclude_booking_id # None /\ exclude_booking_id # 0
            THEN {id \in query : id # exclude_booking_id}
            ELSE query
    IN  Cardinality(filtered) = 0

\* check_availability with only the first of the two interval comparisons.
check_availability_one_sided(tbl, service_id, start_time, end_time, exclude_booking_id) ==
    LET query ==
            {id \in DOMAIN tbl :
                /\ tbl[id].service_id = service_id
                /\ tbl[id].status \in {CONFIRMED, PENDING}
                /\ tbl[id].start_time < end_time}
        filtered ==
            IF exclude_booking_id # None /\ exclude_booking_id # 0
            THEN {id \in query : id # exclude_booking_id}
            ELSE query
    IN  Cardinality(filtered) = 0

\* crud/booking_crud.py check_availability: the query counts the rows of the
\* service whose status is confirmed or pending and whose interval satisfies
\* start_time < end_time(arg) and end_time > start_time(arg); the exclusion
\* filter is added only when exclude_booking_id is truthy (neither None nor 0).
check_availability(tbl, service_id, start_time, end_time, exclude_booking_id) ==
    LET query ==
            {id \in DOMAIN tbl :
                /\ tbl[id].service_id = service_id
                /\ tbl[id].status \in {CONFIRMED, PENDING}
                /\ tbl[id].start_time < end_time
                /\ tbl[id].end_time > start_time}
        filtered ==
            IF exclude_booking_id # None /\ exclude_booking_id # 0
            THEN {id \in query : id # exclude_booking_id}
            ELSE query
        conflicting_bookings == Cardinality(filtered)
    IN  conflicting_bookings = 0

\* Pydantic parsing of a POST /bookings/ body into BookingCreate: fields the
\* schema does not declare are ignored.
ParseBookingCreate(body) == Restrict(body, BookingCreate)

\* A row built with the wrong column default.
NewBookingRow_confirmed(id, booking) ==
    [id |-> id,
     user_id |-> booking.user_id,
     service_id |-> booking.service_id,
     booking_date |-> booking.booking_date,
     start_time |-> booking.start_time,
     end_time |-> booking.end_time,
     status |-> CONFIRMED,
     notes |-> booking.notes,
     total_price |-> booking.total_price]

\* The row Booking(...) builds in crud create_booking: no status is passed, so
\* the column default (BookingStatus.PENDING) is stored.
NewBookingRow(id, booking) ==
    [id |-> id,
     user_id |-> booking.user_id,
     service_id |-> booking.service_id,
     booking_date |-> booking.booking_date,
     start_time |-> booking.start_time,
     end_time |-> booking.end_time,
     status |-> PENDING,
     notes |-> booking.notes,
     total_price |-> booking.total_price]

\* crud/booking_crud.py create_booking
booking_crud_create_booking(tbl, booking) ==
    LET id == NextId(DOMAIN tbl)
    IN  Insert(tbl, id, NewBookingRow(id, booking))

\* crud update_booking, the setattr loop over booking.dict(exclude_unset=True)
SetAttrs(row, fields) ==
    [f \in DOMAIN row |-> IF f \in DOMAIN fields THEN fields[f] ELSE row[f]]

\* db.commit() raises IntegrityError when a NOT NULL column holds NULL.
CommitFails(row) == \E f \in NotNullColumns : row[f] = None

\* A status update that also clears the notes of the row.
booking_crud_update_booking_status_notes(tbl, booking_id, status) ==
    [tbl EXCEPT ![booking_id].status = status, ![booking_id].notes = None]

\* A status update that enforces a transition graph: cancelled and completed
\* are final.
booking_crud_update_booking_status_final(tbl, booking_id, status) ==
    IF tbl[booking_id].status \in {CANCELLED, COMPLETED}
    THEN tbl
    ELSE [tbl EXCEPT ![booking_id].status = status]

\* crud/booking_crud.py update_booking_status, for a row that exists
booking_crud_update_booking_status(tbl, booking_id, status) ==
    [tbl EXCEPT ![booking_id].status = status]

\* A delete that takes the other bookings of the same service with it.
booking_crud_delete_booking_service(tbl, booking_id) ==
    [i \in {j \in DOMAIN tbl : tbl[j].service_id # tbl[booking_id].service_id}
        |-> tbl[i]]

\* crud/booking_crud.py delete_booking, for a row that exists
booking_crud_delete_booking(tbl, booking_id) == Remove(tbl, booking_id)

\* ------------------------------------------------------------ queries
Min(a, b) == IF a <= b THEN a ELSE b

\* The ids of S in the order a query without ORDER BY returns them from
\* SQLite: ascending primary key.
NativeOrder(S) ==
    CHOOSE seq \in [1 .. Cardinality(S) -> S] :
        \A i \in DOMAIN seq, j \in DOMAIN seq : i < j => seq[i] < seq[j]

\* query.offset(skip).limit(limit).all() on SQLite: a negative OFFSET counts as
\* 0 and a negative LIMIT means no limit.
Page(seq, skip, limit) ==
    LET off == IF skip < 0 THEN 0 ELSE skip
        lim == IF limit < 0 THEN Len(seq) ELSE limit
    IN  SubSeq(seq, off + 1, Min(off + lim, Len(seq)))

\* crud/booking_crud.py get_bookings: each filter is added when its argument is
\* truthy (not None, not 0, not the empty string).  An omitted status_filter
\* (None) is written "", which is as falsy.
booking_crud_get_bookings(tbl, skip, limit, user_id, service_id, status_filter) ==
    LET query ==
            {id \in DOMAIN tbl :
                /\ (user_id \notin {None, 0}) => tbl[id].user_id = user_id
                /\ (service_id \notin {None, 0}) => tbl[id].service_id = service_id
                /\ (status_filter # "") => tbl[id].status = status_filter}
    IN  Page(NativeOrder(query), skip, limit)

\* crud/user_crud.py get_users
user_crud_get_users(tbl, skip, limit) == Page(NativeOrder(DOMAIN tbl), skip, limit)

\* crud/service_crud.py get_services
service_crud_get_services(ids, skip, limit) == Page(NativeOrder(ids), skip, limit)

\* The history ordered by booking_date ascending.
HistoryOrders_oldest_first(tbl, user_id) ==
    LET query ==
            {id \in DOMAIN tbl :
                /\ tbl[id].user_id = user_id
                /\ tbl[id].status \in {COMPLETED, CANCELLED}}
    IN  {seq \in [1 .. Cardinality(query) -> query] :
            /\ \A i \in DOMAIN seq, j \in DOMAIN seq : i # j => seq[i] # seq[j]
            /\ \A i \in DOMAIN seq, j \in DOMAIN seq :
                  i < j => tbl[seq[i]].booking_date <= tbl[seq[j]].booking_date}

\* crud get_user_booking_history before offset/limit: the rows of the user
\* whose status is completed or cancelled, ORDER BY booking_date DESC.  Rows
\* with equal dates come in an order the query does not fix, so this is the
\* set of the orders it may produce.
HistoryOrders(tbl, user_id) ==
    LET query ==
            {id \in DOMAIN tbl :
                /\ tbl[id].user_id = user_id
                /\ tbl[id].status \in {COMPLETED, CANCELLED}}
    IN  {seq \in [1 .. Cardinality(query) -> query] :
            /\ \A i \in DOMAIN seq, j \in DOMAIN seq : i # j => seq[i] # seq[j]
            /\ \A i \in DOMAIN seq, j \in DOMAIN seq :
                  i < j => tbl[seq[i]].booking_date >= tbl[seq[j]].booking_date}

\* crud/booking_crud.py get_user_booking_history: the pages it may return.
get_user_booking_history(tbl, user_id, skip, limit) ==
    {Page(seq, skip, limit) : seq \in HistoryOrders(tbl, user_id)}

\* ========================================================= request layer
\* Each handler leaves pc and local to the specification that uses it.

\* POST /users/ (main.py create_user, crud create_user): the unique indexes on
\* email and username make the commit fail, which the handler turns into 400.
create_user(email, username) ==
    /\ UNCHANGED <<services, bookings>>
    /\ IF \E id \in DOMAIN users :
             users[id].email = email \/ users[id].username = username
       THEN /\ users' = users
            /\ resp' = Response("create_user", 400, "Failed to create user", None)
       ELSE LET id == NextId(DOMAIN users)
            IN  /\ users' = Insert(users, id, [email |-> email, username |-> username])
                /\ resp' = Response("create_user", 201, "", id)

\* update_user without the unique indexes on email and username.
update_user_not_unique(user_id, email, username) ==
    /\ UNCHANGED <<services, bookings>>
    /\ IF user_id \notin DOMAIN users
       THEN /\ users' = users
            /\ resp' = Response("update_user", 404, "User not found", None)
       ELSE /\ users' = [users EXCEPT ![user_id] = [email |-> email, username |-> username]]
            /\ resp' = Response("update_user", 200, "", user_id)

\* PUT /users/{user_id} (main.py update_user, crud update_user): every field of
\* the UserCreate body is set on the row.  When another row holds the email or
\* the username the commit raises IntegrityError, which nothing catches: the
\* request ends 500 and the row is unchanged.
update_user(user_id, email, username) ==
    /\ UNCHANGED <<services, bookings>>
    /\ IF user_id \notin DOMAIN users
       THEN /\ users' = users
            /\ resp' = Response("update_user", 404, "User not found", None)
       ELSE IF \E id \in (DOMAIN users) \ {user_id} :
                  users[id].email = email \/ users[id].username = username
       THEN /\ users' = users
            /\ resp' = Response("update_user", 500, "Internal Server Error", None)
       ELSE /\ users' = [users EXCEPT ![user_id] = [email |-> email, username |-> username]]
            /\ resp' = Response("update_user", 200, "", user_id)

\* delete_user on a store that does not enforce anything about the bookings of
\* the user.
delete_user_dangling(user_id) ==
    /\ UNCHANGED <<services, bookings>>
    /\ IF user_id \notin DOMAIN users
       THEN /\ users' = users
            /\ resp' = Response("delete_user", 404, "User not found", None)
       ELSE /\ users' = Remove(users, user_id)
            /\ resp' = Response("delete_user", 204, "", None)

\* DELETE /users/{user_id} (main.py delete_user, crud delete_user).  Booking.user
\* is declared relationship("User", backref="bookings") with no delete cascade,
\* so db.delete(user) makes the flush set user_id of the user's bookings to
\* NULL; the column is nullable=False, the commit raises IntegrityError, nothing
\* catches it and the request ends 500 with nothing deleted.  A user without
\* bookings is deleted.
delete_user(user_id) ==
    /\ UNCHANGED <<services, bookings>>
    /\ IF user_id \notin DOMAIN users
       THEN /\ users' = users
            /\ resp' = Response("delete_user", 404, "User not found", None)
       ELSE IF \E b \in DOMAIN bookings : bookings[b].user_id = user_id
       THEN /\ users' = users
            /\ resp' = Response("delete_user", 500, "Internal Server Error", None)
       ELSE /\ users' = Remove(users, user_id)
            /\ resp' = Response("delete_user", 204, "", None)

\* A call of crud delete_service (no endpoint routes to it); the caller gets
\* True, False or, as for a user, the IntegrityError of the commit that would
\* set service_id of the service's bookings to NULL.
delete_service(service_id) ==
    /\ UNCHANGED <<users, bookings>>
    /\ IF service_id \notin services
       THEN /\ services' = services
            /\ resp' = Response("delete_service", 0, "False", None)
       ELSE IF \E b \in DOMAIN bookings : bookings[b].service_id = service_id
       THEN /\ services' = services
            /\ resp' = Response("delete_service", 0, "IntegrityError", None)
       ELSE /\ services' = services \ {service_id}
            /\ resp' = Response("delete_service", 0, "True", None)

\* POST /services/ (main.py create_service, crud create_service)
create_service ==
    LET id == NextId(services)
    IN  /\ id <= MaxServices
        /\ services' = services \cup {id}
        /\ resp' = Response("create_service", 201, "", id)
        /\ UNCHANGED <<users, bookings>>

\* create_booking with the two lookups in the other order.
create_booking_service_first(body) ==
    LET booking == ParseBookingCreate(body)
    IN  /\ UNCHANGED <<users, services>>
        /\ IF booking.service_id \notin services
           THEN /\ bookings' = bookings
                /\ resp' = Response("create_booking", 404, "Service not found", None)
           ELSE IF booking.user_id \notin DOMAIN users
           THEN /\ bookings' = bookings
                /\ resp' = Response("create_booking", 404, "User not found", None)
           ELSE /\ NextId(DOMAIN bookings) <= MaxBookings
                /\ bookings' = booking_crud_create_booking(bookings, booking)
                /\ resp' = Response("create_booking", 201, "", NextId(DOMAIN bookings))

\* create_booking that runs the availability check and the insert as one
\* store step and refuses a conflicting interval.
create_booking_serialized(body) ==
    LET booking == ParseBookingCreate(body)
    IN  /\ UNCHANGED <<users, services>>
        /\ IF booking.user_id \notin DOMAIN users
           THEN /\ bookings' = bookings
                /\ resp' = Response("create_booking", 404, "User not found", None)
           ELSE IF booking.service_id \notin services
           THEN /\ bookings' = bookings
                /\ resp' = Response("create_booking", 404, "Service not found", None)
           ELSE IF ~check_availability(bookings, booking.service_id,
                                       booking.start_time, booking.end_time, None)
           THEN /\ bookings' = bookings
                /\ resp' = Response("create_booking", 409, "Conflict", None)
           ELSE /\ NextId(DOMAIN bookings) <= MaxBookings
                /\ bookings' = booking_crud_create_booking(bookings, booking)
                /\ resp' = Response("create_booking", 201, "", NextId(DOMAIN bookings))

\* create_booking without the "except HTTPException: raise" clause: the
\* not-found outcomes fall into the handler of store failures.
create_booking_catch_all(body) ==
    LET booking == ParseBookingCreate(body)
    IN  /\ UNCHANGED <<users, services>>
        /\ IF booking.user_id \notin DOMAIN users
           THEN /\ bookings' = bookings
                /\ resp' = Response("create_booking", 400, "User not found", None)
           ELSE IF booking.service_id \notin services
           THEN /\ bookings' = bookings
                /\ resp' = Response("create_booking", 400, "Service not found", None)
           ELSE /\ NextId(DOMAIN bookings) <= MaxBookings
                /\ bookings' = booking_crud_create_booking(bookings, booking)
                /\ resp' = Response("create_booking", 201, "", NextId(DOMAIN bookings))

\* POST /bookings/ (main.py create_booking): the user is looked up first, then
\* the service, then the crud insert runs.  check_availability is not called.
create_booking(body) ==
    LET booking == ParseBookingCreate(body)
    IN  /\ UNCHANGED <<users, services>>
        /\ IF booking.user_id \notin DOMAIN users
           THEN /\ bookings' = bookings
                /\ resp' = Response("create_booking", 404, "User not found", None)
           ELSE IF booking.service_id \notin services
           THEN /\ bookings' = bookings
                /\ resp' = Response("create_booking", 404, "Service not found", None)
           ELSE /\ NextId(DOMAIN bookings) <= MaxBookings
                /\ bookings' = booking_crud_create_booking(bookings, booking)
                /\ resp' = Response("create_booking", 201, "", NextId(DOMAIN bookings))

\* update_booking that keeps the non-null fields it had set when the commit
\* fails.
update_booking_partial(booking_id, fields) ==
    /\ UNCHANGED <<users, services>>
    /\ IF booking_id \notin DOMAIN bookings
       THEN /\ bookings' = bookings
            /\ resp' = Response("update_booking", 404, "Booking not found", None)
       ELSE LET row == SetAttrs(bookings[booking_id], fields)
                kept == {f \in DOMAIN fields : fields[f] # None}
            IN  IF CommitFails(row)
                THEN /\ bookings' =
                            [bookings EXCEPT ![booking_id] =
                                SetAttrs(bookings[booking_id], Restrict(fields, kept))]
                     /\ resp' = Response("update_booking", 500, "Internal Server Error", None)
                ELSE /\ bookings' = [bookings EXCEPT ![booking_id] = row]
                     /\ resp' = Response("update_booking", 200, "", booking_id)

\* PUT /bookings/{booking_id} (main.py update_booking, crud update_booking).
\* fields is booking.dict(exclude_unset=True).  A failed commit is not caught:
\* the request ends 500 and the session is closed without the change.
update_booking(booking_id, fields) ==
    /\ UNCHANGED <<users, services>>
    /\ IF booking_id \notin DOMAIN bookings
       THEN /\ bookings' = bookings
            /\ resp' = Response("update_booking", 404, "Booking not found", None)
       ELSE LET row == SetAttrs(bookings[booking_id], fields)
            IN  IF CommitFails(row)
                THEN /\ bookings' = bookings
                     /\ resp' = Response("update_booking", 500, "Internal Server Error", None)
                ELSE /\ bookings' = [bookings EXCEPT ![booking_id] = row]
                     /\ resp' = Response("update_booking", 200, "", booking_id)

\* PATCH /bookings/{booking_id}/status (main.py update_booking_status).  The
\* parameter named status shadows fastapi's status module inside the handler,
\* so both error branches, which read status.HTTP_400_BAD_REQUEST and
\* status.HTTP_404_NOT_FOUND, raise AttributeError on the str and end 500.
update_booking_status(booking_id, status) ==
    /\ UNCHANGED <<users, services>>
    /\ IF status \notin valid_statuses
       THEN /\ bookings' = bookings
            /\ resp' = Response("update_booking_status", 500, "Internal Server Error", None)
       ELSE IF booking_id \notin DOMAIN bookings
       THEN /\ bookings' = bookings
            /\ resp' = Response("update_booking_status", 500, "Internal Server Error", None)
       ELSE /\ bookings' = booking_crud_update_booking_status(bookings, booking_id, status)
            /\ resp' = Response("update_booking_status", 200, "", booking_id)

\* A request model that keeps every field of the body.
ParseBookingUpdate_open(body) == body

\* The BookingUpdate request model: pydantic keeps the declared fields of the
\* JSON body and ignores the others; dict(exclude_unset=True) returns the ones
\* the body supplied.
ParseBookingUpdate(body) == Restrict(body, BookingUpdate)

\* PUT /bookings/{booking_id} from the JSON body of the request.
put_booking(booking_id, body) == update_booking(booking_id, ParseBookingUpdate(body))

\* DELETE /bookings/{booking_id} (main.py delete_booking, crud delete_booking)
delete_booking(booking_id) ==
    /\ UNCHANGED <<users, services>>
    /\ IF booking_id \notin DOMAIN bookings
       THEN /\ bookings' = bookings
            /\ resp' = Response("delete_booking", 404, "Booking not found", None)
       ELSE /\ bookings' = booking_crud_delete_booking(bookings, booking_id)
            /\ resp' = Response("delete_booking", 204, "", None)

\* GET /bookings/{booking_id} (main.py get_booking, crud get_booking): the row
\* with that id, or 404 with a detail that names the id.
get_booking(booking_id) ==
    /\ UNCHANGED <<users, services, bookings>>
    /\ IF booking_id \notin DOMAIN bookings
       THEN resp' = Response("get_booking", 404, "Booking not found", booking_id)
       ELSE LET row == bookings[booking_id]
            IN  resp' = [op |-> "get_booking", code |-> 200, detail |-> "",
                         id |-> row.id, user_id |-> row.user_id,
                         service_id |-> row.service_id]

\* The 200 response of a list endpoint, or the list a crud query returns to its
\* caller: items are the ids of the rows, in order.
ListResponse(op, items) ==
    [op |-> op, code |-> 200, detail |-> "", id |-> None, items |-> items]

\* GET /bookings/ (main.py get_bookings): 404 when the page is empty.
get_bookings(skip, limit, user_id, service_id, status_filter) ==
    LET items ==
            booking_crud_get_bookings(bookings, skip, limit, user_id, service_id,
                                      status_filter)
    IN  /\ UNCHANGED <<users, services, bookings>>
        /\ resp' = IF items = <<>>
                   THEN Response("get_bookings", 404,
                                 "No bookings found with the specified criteria", None)
                   ELSE ListResponse("get_bookings", items)

\* get_users that answers 200 with an empty list.
get_users_empty_ok(skip, limit) ==
    LET items == user_crud_get_users(users, skip, limit)
    IN  /\ UNCHANGED <<users, services, bookings>>
        /\ resp' = ListResponse("get_users", items)

\* GET /users/ (main.py get_users)
get_users(skip, limit) ==
    LET items == user_crud_get_users(users, skip, limit)
    IN  /\ UNCHANGED <<users, services, bookings>>
        /\ resp' = IF items = <<>>
                   THEN Response("get_users", 404, "No users found", None)
                   ELSE ListResponse("get_users", items)

\* GET /services/ (main.py get_services)
get_services(skip, limit) ==
    LET items == service_crud_get_services(services, skip, limit)
    IN  /\ UNCHANGED <<users, services, bookings>>
        /\ resp' = IF items = <<>>
                   THEN Response("get_services", 404, "No services found", None)
                   ELSE ListResponse("get_services", items)

\* A call of crud get_user_booking_history (no endpoint routes to it): the
\* caller receives one of the pages the query may return.
UserBookingHistory(user_id, skip, limit) ==
    /\ UNCHANGED <<users, services, bookings>>
    /\ \E items \in get_user_booking_history(bookings, user_id, skip, limit) :
          resp' = ListResponse("get_user_booking_history", items)

\* ================================================================ inputs
Times == 0 .. MaxTime
UserIdArgs == 1 .. (MaxUsers + 1)
ServiceIdArgs == 1 .. (MaxServices + 1)
BookingIdArgs == 1 .. (MaxBookings + 1)
StatusArgs == valid_statuses \cup {"archived"}
Emails == {"a@example.com"}
Usernames == {"a"}

\* JSON bodies of POST /bookings/: the declared fields, with or without an
\* undeclared status field.
CreateBodies(U, S, D, ST, ET, N, P) ==
    [user_id : U, service_id : S, booking_date : D,
     start_time : ST, end_time : ET, notes : N, total_price : P]
    \cup
    [user_id : U, service_id : S, booking_date : D,
     start_time : ST, end_time : ET, notes : N, total_price : P,
     status : {CONFIRMED}]

\* JSON bodies of PUT /bookings/{id}: every subset of the declared fields,
\* each supplied field null or a value.
UpdateBodies(D, T, N, P) ==
    {Restrict(r, fs) :
        r \in [booking_date : D \cup {None}, start_time : T \cup {None},
               end_time : T \cup {None}, notes : N \cup {None},
               total_price : P \cup {None}],
        fs \in SUBSET BookingUpdate}

\* ------------------------------------------------------ Spec: lifecycle
\* One date, no notes and one price; intervals and statuses vary.
SpecCreateBodies == CreateBodies(UserIdArgs, ServiceIdArgs, {1}, Times, Times, {None}, {10})
SpecUpdateBodies ==
    {Restrict(r, fs) :
        r \in [start_time : Times \cup {None}, end_time : Times \cup {None}],
        fs \in SUBSET {"start_time", "end_time"}}

CreateUser ==
    /\ \E e \in Emails, u \in Usernames : create_user(e, u)
    /\ \A id \in DOMAIN users' : id <= MaxUsers
CreateService == create_service
CreateBooking == \E body \in SpecCreateBodies : create_booking(body)
UpdateBooking ==
    \E id \in BookingIdArgs, fields \in SpecUpdateBodies : update_booking(id, fields)
UpdateBookingStatus ==
    \E id \in BookingIdArgs, st \in StatusArgs : update_booking_status(id, st)
DeleteBooking == \E id \in BookingIdArgs : delete_booking(id)

Next ==
    /\ UNCHANGED <<pc, local>>
    /\ \/ CreateUser
       \/ CreateService
       \/ CreateBooking
       \/ UpdateBooking
       \/ UpdateBookingStatus
       \/ DeleteBooking

Spec == Init /\ [][Next]_vars

\* ------------------------------------ SpecRefs: the references of a booking
\* Creation requests name every user id and service id, stored or not, for one
\* interval; statuses are rewritten and bookings deleted around them.
RefsCreateBodies == CreateBodies(UserIdArgs, ServiceIdArgs, {1}, {0}, {1}, {None}, {10})

RefsCreateBooking == \E body \in RefsCreateBodies : create_booking(body)
RefsUpdateBookingStatus ==
    \E id \in BookingIdArgs, st \in StatusArgs : update_booking_status(id, st)

NextRefs ==
    /\ UNCHANGED <<pc, local>>
    /\ \/ CreateUser
       \/ CreateService
       \/ RefsCreateBooking
       \/ RefsUpdateBookingStatus
       \/ DeleteBooking

SpecRefs == Init /\ [][NextRefs]_vars

\* ------------------------------------------- SpecFields: field updates
\* Bookings are created with one body and then rewritten by PUT requests that
\* supply any subset of the five fields, each null or a value.
FieldsCreateBodies == CreateBodies({1}, {1}, {1}, {0}, {1}, {None}, {10})
FieldsUpdateBodies == UpdateBodies({2}, {1}, {7}, {20})

FieldsCreateBooking == \E body \in FieldsCreateBodies : create_booking(body)
FieldsUpdateBooking ==
    \E id \in BookingIdArgs, fields \in FieldsUpdateBodies : update_booking(id, fields)

NextFields ==
    /\ UNCHANGED <<pc, local>>
    /\ \/ CreateUser
       \/ CreateService
       \/ FieldsCreateBooking
       \/ FieldsUpdateBooking
       \/ DeleteBooking

SpecFields == Init /\ [][NextFields]_vars

\* ------------------------------------- SpecRace: check-then-insert clients
\* A client first asks check_availability for its interval and, when told the
\* service is available, posts the booking: two separate store steps, with
\* whatever other requests the store serves in between.
ClientBody(l) ==
    [user_id |-> l.user_id, service_id |-> l.service_id, booking_date |-> 1,
     start_time |-> l.start_time, end_time |-> l.end_time, notes |-> None,
     total_price |-> 10]

ClientCheck(p, user_id, service_id, start_time, end_time) ==
    /\ pc[p] = "idle"
    /\ local' = [local EXCEPT ![p] =
            [user_id |-> user_id, service_id |-> service_id,
             start_time |-> start_time, end_time |-> end_time,
             available |->
                check_availability(bookings, service_id, start_time, end_time, None)]]
    /\ pc' = [pc EXCEPT ![p] = "checked"]
    /\ UNCHANGED <<users, services, bookings, resp>>

ClientInsert(p) ==
    /\ pc[p] = "checked"
    /\ pc' = [pc EXCEPT ![p] = "done"]
    /\ UNCHANGED local
    /\ IF local[p].available
       THEN create_booking(ClientBody(local[p]))
       ELSE UNCHANGED <<users, services, bookings, resp>>

RaceCreateUser == CreateUser /\ UNCHANGED <<pc, local>>
RaceCreateService == CreateService /\ UNCHANGED <<pc, local>>
RaceCheck ==
    \E p \in Procs, u \in DOMAIN users, s \in services, st \in Times, et \in Times :
        st < et /\ ClientCheck(p, u, s, st, et)
RaceInsert == \E p \in Procs : ClientInsert(p)

NextRace == RaceCreateUser \/ RaceCreateService \/ RaceCheck \/ RaceInsert

SpecRace == Init /\ [][NextRace]_vars

\* ------------------------------------ SpecAvail: callers of the checker
\* Two callers ask check_availability about the store between the write
\* requests; a caller holds its answer until the next write request is served.
AvailCreateBodies ==
    CreateBodies({1}, 1 .. MaxServices, {1}, {0}, {1}, {None}, {10})
AvailStatusArgs == {CONFIRMED, CANCELLED}
AvailExcludeArgs == {None, 1}

\* A check that reserves the slot it found free by storing a pending row.
CallCheckAvailability_hold(p, service_id, start_time, end_time, exclude_booking_id) ==
    LET available ==
            check_availability(bookings, service_id, start_time, end_time,
                               exclude_booking_id)
        hold == [user_id |-> 1, service_id |-> service_id, booking_date |-> 1,
                 start_time |-> start_time, end_time |-> end_time,
                 notes |-> None, total_price |-> 10]
    IN  /\ local' = [local EXCEPT ![p] =
                [service_id |-> service_id, start_time |-> start_time,
                 end_time |-> end_time, exclude_booking_id |-> exclude_booking_id,
                 available |-> available]]
        /\ pc' = [pc EXCEPT ![p] = "checked"]
        /\ bookings' = IF available
                       THEN booking_crud_create_booking(bookings, hold)
                       ELSE bookings
        /\ UNCHANGED <<users, services, resp>>

\* One call of crud check_availability: a SELECT count, no add, no commit; the
\* caller keeps the boolean.
CallCheckAvailability(p, service_id, start_time, end_time, exclude_booking_id) ==
    /\ local' = [local EXCEPT ![p] =
            [service_id |-> service_id, start_time |-> start_time,
             end_time |-> end_time, exclude_booking_id |-> exclude_booking_id,
             available |->
                check_availability(bookings, service_id, start_time, end_time,
                                   exclude_booking_id)]]
    /\ pc' = [pc EXCEPT ![p] = "checked"]
    /\ UNCHANGED <<users, services, bookings, resp>>

\* A write request was served: the answers the callers hold are dropped.
AvailDrop ==
    /\ pc' = [p \in Procs |-> "idle"]
    /\ local' = [p \in Procs |-> NoLocal]

AvailCreateUser == CreateUser /\ AvailDrop
AvailCreateService == CreateService /\ AvailDrop
AvailCreateBooking ==
    /\ \E body \in AvailCreateBodies : create_booking(body)
    /\ AvailDrop
AvailUpdateBookingStatus ==
    /\ \E id \in DOMAIN bookings, st \in AvailStatusArgs : update_booking_status(id, st)
    /\ AvailDrop
AvailDeleteBooking ==
    /\ \E id \in DOMAIN bookings : delete_booking(id)
    /\ AvailDrop
AvailCheck ==
    \E p \in Procs, s \in services, st \in Times, et \in Times,
       ex \in AvailExcludeArgs :
        st < et /\ CallCheckAvailability(p, s, st, et, ex)

NextAvail ==
    \/ AvailCreateUser
    \/ AvailCreateService
    \/ AvailCreateBooking
    \/ AvailUpdateBookingStatus
    \/ AvailDeleteBooking
    \/ AvailCheck

SpecAvail == Init /\ [][NextAvail]_vars

\* ------------------------------------------- SpecQuery: the list queries
\* The store starts as the startup hook leaves it (utils/data_generator.py
\* generate_test_data): users with distinct emails, services, and bookings of
\* random stored users and services on random dates in random statuses.
\* Status updates and deletes move it; the queries read it.
Dates == 1 .. MaxDate

GenUser(id) ==
    [email |-> "user" \o ToString(id) \o "@example.com",
     username |-> "user" \o ToString(id)]

GenBooking(id, user_id, service_id, booking_date, status) ==
    [id |-> id, user_id |-> user_id, service_id |-> service_id,
     booking_date |-> booking_date, start_time |-> 0, end_time |-> 1,
     status |-> status, notes |-> None, total_price |-> 10]

InitGenerated ==
    /\ users = [id \in 1 .. GenUsers |-> GenUser(id)]
    /\ services = 1 .. MaxServices
    /\ \E n \in 0 .. MaxBookings :
        \E u \in [1 .. n -> 1 .. GenUsers], sv \in [1 .. n -> 1 .. MaxServices],
           d \in [1 .. n -> Dates], st \in [1 .. n -> BookingStatus] :
            bookings = [id \in 1 .. n |-> GenBooking(id, u[id], sv[id], d[id], st[id])]
    /\ resp = Response("none", 0, "", None)
    /\ pc = [p \in Procs |-> "idle"]
    /\ local = [p \in Procs |-> NoLocal]

SkipArgs == 0 .. 1
LimitArgs == {-1} \cup (1 .. MaxBookings)
QueryUserArgs == {None, 1}
QueryServiceArgs == {None, 1}
QueryStatusArgs == {"", COMPLETED}
HistorySkipArgs == 0 .. MaxBookings
HistoryLimitArgs == 0 .. MaxBookings

QueryUpdateBookingStatus ==
    \E id \in DOMAIN bookings, st \in {COMPLETED, CANCELLED} :
        update_booking_status(id, st)
QueryDeleteBooking == \E id \in DOMAIN bookings : delete_booking(id)
GetBookings ==
    \E skip \in SkipArgs, limit \in LimitArgs, u \in QueryUserArgs,
       s \in QueryServiceArgs, st \in QueryStatusArgs :
        get_bookings(skip, limit, u, s, st)
GetUsers == \E skip \in SkipArgs, limit \in LimitArgs : get_users(skip, limit)
GetServices == \E skip \in SkipArgs, limit \in LimitArgs : get_services(skip, limit)
GetUserBookingHistory ==
    \E u \in 1 .. (GenUsers + 1), skip \in HistorySkipArgs, limit \in HistoryLimitArgs :
        UserBookingHistory(u, skip, limit)

NextQuery ==
    /\ UNCHANGED <<pc, local>>
    /\ \/ QueryUpdateBookingStatus
       \/ QueryDeleteBooking
       \/ GetBookings
       \/ GetUsers
       \/ GetServices
       \/ GetUserBookingHistory

SpecQuery == InitGenerated /\ [][NextQuery]_vars

\* --------------------------------------- SpecList: the list endpoints
\* The list endpoints are asked for every page, filtered or not, of a store
\* that creates, status updates and deletes build from the empty one.
ListSkipArgs == 0 .. MaxBookings
ListLimitArgs == {-1, 1}
ListUserArgs == {None, 1}
ListServiceArgs == {None, 1}
ListStatusArgs == {"", CANCELLED}

ListCreateBooking == \E body \in AvailCreateBodies : create_booking(body)
ListUpdateBookingStatus ==
    \E id \in DOMAIN bookings, st \in AvailStatusArgs : update_booking_status(id, st)
ListGetBookings ==
    \E skip \in ListSkipArgs, limit \in ListLimitArgs, u \in ListUserArgs,
       s \in ListServiceArgs, st \in ListStatusArgs :
        get_bookings(skip, limit, u, s, st)
ListGetUsers ==
    \E skip \in ListSkipArgs, limit \in ListLimitArgs : get_users(skip, limit)
ListGetServices ==
    \E skip \in ListSkipArgs, limit \in ListLimitArgs : get_services(skip, limit)

NextList ==
    /\ UNCHANGED <<pc, local>>
    /\ \/ CreateUser
       \/ CreateService
       \/ ListCreateBooking
       \/ ListUpdateBookingStatus
       \/ DeleteBooking
       \/ ListGetBookings
       \/ ListGetUsers
       \/ ListGetServices

SpecList == Init /\ [][NextList]_vars

\* ------------------------------------ SpecEntities: users and services
\* Users are created, rewritten and deleted, services created and deleted,
\* around bookings that refer to them.
AccountEmails == {"a@example.com", "b@example.com"}
AccountUsernames == {"a", "b"}
AccountIdArgs == 1 .. (MaxAccounts + 1)
EntityCreateBodies ==
    CreateBodies(1 .. MaxAccounts, 1 .. MaxServices, {1}, {0}, {1}, {None}, {10})

EntityCreateUser ==
    /\ \E e \in AccountEmails, u \in AccountUsernames : create_user(e, u)
    /\ \A id \in DOMAIN users' : id <= MaxAccounts
EntityUpdateUser ==
    \E id \in AccountIdArgs, e \in AccountEmails, u \in AccountUsernames :
        update_user(id, e, u)
EntityDeleteUser == \E id \in AccountIdArgs : delete_user(id)
EntityDeleteService == \E id \in ServiceIdArgs : delete_service(id)
EntityCreateBooking == \E body \in EntityCreateBodies : create_booking(body)

NextEntities ==
    /\ UNCHANGED <<pc, local>>
    /\ \/ EntityCreateUser
       \/ EntityUpdateUser
       \/ EntityDeleteUser
       \/ CreateService
       \/ EntityDeleteService
       \/ EntityCreateBooking
       \/ DeleteBooking

SpecEntities == Init /\ [][NextEntities]_vars

\* --------------------------------------------- statistics (get_booking_stats)
\* The calendar of datetime: a datetime at midnight is its day number, counted
\* from 1 on the first day of the first year of Years (date.toordinal up to a
\* shift).
Years == 2024 .. 2025

IsLeap(y) == (y % 4 = 0 /\ y % 100 # 0) \/ y % 400 = 0

DaysInMonth(y, m) ==
    IF m = 2 THEN (IF IsLeap(y) THEN 29 ELSE 28)
    ELSE IF m \in {4, 6, 9, 11} THEN 30 ELSE 31

RECURSIVE DaysBeforeMonth(_, _)
DaysBeforeMonth(y, m) ==
    IF m = 1 THEN 0 ELSE DaysBeforeMonth(y, m - 1) + DaysInMonth(y, m - 1)

RECURSIVE DaysBeforeYear(_)
DaysBeforeYear(y) ==
    IF y \notin Years \/ y - 1 \notin Years THEN 0
    ELSE DaysBeforeYear(y - 1) + DaysBeforeMonth(y - 1, 12) + DaysInMonth(y - 1, 12)

CalendarDays ==
    {r \in [year : Years, month : 1 .. 12, day : 1 .. 31] :
        r.day <= DaysInMonth(r.year, r.month)}

\* datetime(y, m, d).toordinal()
toordinal(y, m, d) == DaysBeforeYear(y) + DaysBeforeMonth(y, m) + d

\* datetime.fromordinal(n), as a table over the calendar
fromordinal ==
    [n \in 1 .. Cardinality(CalendarDays) |->
        CHOOSE r \in CalendarDays : toordinal(r.year, r.month, r.day) = n]

\* dt.replace(day=d)
replace_day(dt, d) == toordinal(fromordinal[dt].year, fromordinal[dt].month, d)

\* dt.strftime("%Y-%m"): the year and the month, the day dropped.
strftime_Ym(dt) == [year |-> fromordinal[dt].year, month |-> fromordinal[dt].month]

\* func.sum over a set of rows (0 for no row)
RECURSIVE SumPrice(_, _)
SumPrice(tbl, ids) ==
    IF ids = {} THEN 0
    ELSE LET id == CHOOSE x \in ids : TRUE
         IN  tbl[id].total_price + SumPrice(tbl, ids \ {id})

\* The rows the revenue query of get_booking_stats ranges over, widened to
\* every status.
RevenueRows_all(tbl) == DOMAIN tbl

\* The rows the revenue query ranges over: filter(status == COMPLETED).
RevenueRows(tbl) == {id \in DOMAIN tbl : tbl[id].status = COMPLETED}

\* One pass of the monthly loop of get_booking_stats, i in range(12).
MonthlyEntry(tbl, now, i) ==
    LET month_start == replace_day(now, 1) - i * 30
        month_end == replace_day(replace_day(month_start, 28) + 4, 1) - 1
    IN  [month |-> strftime_Ym(month_start),
         count |-> Cardinality({id \in DOMAIN tbl :
                        /\ tbl[id].booking_date >= month_start
                        /\ tbl[id].booking_date <= month_end})]

\* crud get_booking_stats at current date now.  An average is kept as the
\* fraction num / den; a falsy sum or average is reported as 0.
booking_crud_get_booking_stats(tbl, now) ==
    LET rows == RevenueRows(tbl)
        total_revenue == SumPrice(tbl, rows)
    IN  [total_bookings |-> Cardinality(DOMAIN tbl),
         status_distribution |->
            [s \in {tbl[id].status : id \in DOMAIN tbl} |->
                Cardinality({id \in DOMAIN tbl : tbl[id].status = s})],
         monthly_trends |-> [i \in 1 .. 12 |-> MonthlyEntry(tbl, now, i - 1)],
         revenue |->
            [total |-> IF rows # {} /\ total_revenue # 0 THEN total_revenue ELSE 0,
             average_per_booking |->
                IF rows # {} /\ total_revenue # 0
                THEN [num |-> total_revenue, den |-> Cardinality(rows)]
                ELSE [num |-> 0, den |-> 1]]]

\* GET /stats/bookings (main.py get_booking_stats)
get_booking_stats(now) ==
    /\ UNCHANGED <<users, services, bookings>>
    /\ resp' = [op |-> "get_booking_stats", code |-> 200, detail |-> "",
                id |-> None,
                stats |-> booking_crud_get_booking_stats(bookings, now)]

\* ------------------------------------------- SpecStats: dated bookings
\* Bookings on either side of a month boundary and in February, two prices,
\* and statistics requested on a day in March and a day in November.
StatDates == {toordinal(2025, 2, 10), toordinal(2025, 10, 1), toordinal(2025, 10, 2)}
NowArgs == {toordinal(2025, 3, 15), toordinal(2025, 11, 3)}
StatCreateBodies ==
    CreateBodies({1}, 1 .. MaxServices, StatDates, {0}, {1}, {None}, {10, 20})
StatStatusArgs == {COMPLETED, CANCELLED}

StatCreateBooking == \E body \in StatCreateBodies : create_booking(body)
StatUpdateBookingStatus ==
    \E id \in DOMAIN bookings, st \in StatStatusArgs : update_booking_status(id, st)
GetBookingStats == \E now \in NowArgs : get_booking_stats(now)

NextStats ==
    /\ UNCHANGED <<pc, local>>
    /\ \/ CreateUser
       \/ CreateService
       \/ StatCreateBooking
       \/ StatUpdateBookingStatus
       \/ DeleteBooking
       \/ GetBookingStats

SpecStats == Init /\ [][NextStats]_vars

\* ------------------------------------- SpecPut: bodies with foreign fields
\* PUT bodies carry any subset of id, user_id, service_id and status next to
\* notes and total_price (null or a value).
PutBodies ==
    {Restrict(r, fs) :
        r \in [id : {MaxBookings + 1}, user_id : {MaxUsers + 1},
               service_id : {MaxServices + 1}, status : {CANCELLED},
               notes : {7}, total_price : {None, 5}],
        fs \in SUBSET {"id", "user_id", "service_id", "status", "notes", "total_price"}}

PutBooking == \E id \in BookingIdArgs, body \in PutBodies : put_booking(id, body)

NextPut ==
    /\ UNCHANGED <<pc, local>>
    /\ \/ CreateUser
       \/ CreateService
       \/ ListCreateBooking
       \/ ListUpdateBookingStatus
       \/ DeleteBooking
       \/ PutBooking

SpecPut == Init /\ [][NextPut]_vars

\* ------------------------------- SpecLife: clients that keep a booking id
\* A client creates a booking and keeps the id, user_id and service_id of the
\* 201 response; it later fetches or deletes that id, while bookings are also
\* updated and deleted by id.  pc[p] follows the booking the client created:
\* "created" while the row is stored, "deleted" once it is gone, "reissued"
\* once a later creation was given the same id.
LifeCreateBodies ==
    CreateBodies({1}, 1 .. MaxServices, {1}, {0}, {1}, {None}, {10})
LifeUpdateBodies == UpdateBodies({}, {}, {7}, {})

LifeTrack(creator) ==
    pc' = [p \in Procs |->
            IF p = creator THEN "created"
            ELSE IF pc[p] = "created" /\ local[p].id \notin DOMAIN bookings'
            THEN "deleted"
            ELSE IF pc[p] = "deleted" /\ local[p].id \in DOMAIN bookings'
            THEN "reissued"
            ELSE pc[p]]

LifeCreateUser == CreateUser /\ UNCHANGED <<pc, local>>
LifeCreateService == CreateService /\ UNCHANGED <<pc, local>>
LifeCreate ==
    \E p \in Procs, body \in LifeCreateBodies :
        /\ pc[p] = "idle"
        /\ create_booking(body)
        /\ IF resp'.code = 201
           THEN /\ local' = [local EXCEPT ![p] =
                        [id |-> resp'.id, user_id |-> body.user_id,
                         service_id |-> body.service_id]]
                /\ LifeTrack(p)
           ELSE UNCHANGED <<pc, local>>
LifeFetch ==
    \E p \in Procs :
        /\ pc[p] # "idle"
        /\ get_booking(local[p].id)
        /\ UNCHANGED <<pc, local>>
LifeDelete ==
    \E p \in Procs :
        /\ pc[p] # "idle"
        /\ delete_booking(local[p].id)
        /\ LifeTrack(0)
        /\ UNCHANGED local
LifeUpdateBooking ==
    /\ \E id \in DOMAIN bookings, fields \in LifeUpdateBodies : update_booking(id, fields)
    /\ UNCHANGED <<pc, local>>
LifeUpdateBookingStatus ==
    /\ \E id \in DOMAIN bookings : update_booking_status(id, CANCELLED)
    /\ UNCHANGED <<pc, local>>

NextLife ==
    \/ LifeCreateUser
    \/ LifeCreateService
    \/ LifeCreate
    \/ LifeFetch
    \/ LifeDelete
    \/ LifeUpdateBooking
    \/ LifeUpdateBookingStatus

SpecLife == Init /\ [][NextLife]_vars

\* ------------------------------------------------- logs (utils/log_reader.py)
\* A str is the sequence of its characters.
UpperCase ==
    <<"A", "B", "C", "D", "E", "F", "G", "H", "I", "J", "K", "L", "M",
      "N", "O", "P", "Q", "R", "S", "T", "U", "V", "W", "X", "Y", "Z">>
LowerCase ==
    <<"a", "b", "c", "d", "e", "f", "g", "h", "i", "j", "k", "l", "m",
      "n", "o", "p", "q", "r", "s", "t", "u", "v", "w", "x", "y", "z">>
Whitespace == {" ", "\n"}

\* str.upper() and str.lower()
upper(str) ==
    [i \in 1 .. Len(str) |->
        IF \E k \in 1 .. Len(LowerCase) : LowerCase[k] = str[i]
        THEN UpperCase[CHOOSE k \in 1 .. Len(LowerCase) : LowerCase[k] = str[i]]
        ELSE str[i]]
lower(str) ==
    [i \in 1 .. Len(str) |->
        IF \E k \in 1 .. Len(UpperCase) : UpperCase[k] = str[i]
        THEN LowerCase[CHOOSE k \in 1 .. Len(UpperCase) : UpperCase[k] = str[i]]
        ELSE str[i]]

\* str.strip()
RECURSIVE strip(_)
strip(str) ==
    IF str = <<>> THEN str
    ELSE IF Head(str) \in Whitespace THEN strip(Tail(str))
    ELSE IF str[Len(str)] \in Whitespace THEN strip(SubSeq(str, 1, Len(str) - 1))
    ELSE str

\* line.rstrip("\n")
RECURSIVE rstrip_newline(_)
rstrip_newline(str) ==
    IF str # <<>> /\ str[Len(str)] = "\n"
    THEN rstrip_newline(SubSeq(str, 1, Len(str) - 1))
    ELSE str

\* needle in str
Contains(needle, str) ==
    \E i \in 1 .. (Len(str) - Len(needle) + 1) :
        SubSeq(str, i, i + Len(needle) - 1) = needle

LEVELS ==
    <<<<"D", "E", "B", "U", "G">>, <<"I", "N", "F", "O">>, <<"W", "A", "R", "N">>, <<"E", "R", "R", "O", "R">>, <<"C", "R", "I", "T", "I", "C", "A", "L">>>>

\* The limit that replaces a limit <= 0 (100 in read_logs), scaled to the
\* length of the files read here.
DEFAULT_LIMIT == 2

\* The substring filter without case folding.
QueryFilter_exact(filtered, query) ==
    IF query # <<>>
    THEN LET Test(ln) == Contains(query, ln)
         IN  SelectSeq(filtered, Test)
    ELSE filtered

\* read_logs lines 41-43: the case-insensitive substring filter.
QueryFilter(filtered, query) ==
    IF query # <<>>
    THEN LET q == lower(query)
             Test(ln) == Contains(q, lower(ln))
         IN  SelectSeq(filtered, Test)
    ELSE filtered

\* filtered[offset : offset + limit] for offset >= 0 and limit > 0
Slice(seq, offset, limit) ==
    SubSeq(seq, offset + 1, Min(offset + limit, Len(seq)))

\* read_logs(level, query, offset, limit) on the file at the default path.
\* file.exists tells whether the path exists, file.lines are the lines a read
\* yields, newline included.  An omitted (or empty) level or query is <<>>.
read_logs(file, level, query, offset, limit) ==
    IF ~file.exists THEN [lines |-> <<>>, total |-> 0]
    ELSE LET all_lines == [i \in 1 .. Len(file.lines) |-> rstrip_newline(file.lines[i])]
             lvl == upper(strip(level))
         IN  IF level # <<>> /\ \A k \in 1 .. Len(LEVELS) : LEVELS[k] # lvl
             THEN [lines |-> <<>>, total |-> 0]
             ELSE LET needle == <<"[">> \o lvl \o <<"]">>
                      HasLevel(ln) == Contains(needle, ln)
                      by_level == IF level # <<>> THEN SelectSeq(all_lines, HasLevel)
                                  ELSE all_lines
                      filtered == QueryFilter(by_level, query)
                      off == IF offset < 0 THEN 0 ELSE offset
                      lim == IF limit <= 0 THEN DEFAULT_LIMIT ELSE limit
                  IN  [lines |-> Slice(filtered, off, lim), total |-> Len(filtered)]

\* GET /logs (main.py get_logs): always 200, with the requested offset and
\* limit next to the page and the total.
get_logs(file, level, query, offset, limit) ==
    LET r == read_logs(file, level, query, offset, limit)
    IN  /\ UNCHANGED <<users, services, bookings>>
        /\ resp' = [op |-> "get_logs", code |-> 200, detail |-> "", id |-> None,
                    total |-> r.total, offset |-> offset, limit |-> limit,
                    lines |-> r.lines]

\* ---------------------------------------------- SpecLogs: one log request
\* The log file and the query parameters of one request are drawn at the
\* start and kept in local[1]; the request is then served.
MaxLogLines == 3

LogLineArgs ==
    {<<"[", "I", "N", "F", "O", "]", " ", "O", "k", "\n">>,
     <<"[", "E", "R", "R", "O", "R", "]", " ", "o", "k", "\n">>,
     <<"[", "i", "n", "f", "o", "]", " ", "r", "\n">>,
     <<"I", "N", "F", "O", " ", "r">>}

RECURSIVE SeqsUpTo(_, _)
SeqsUpTo(S, n) ==
    IF n = 0 THEN {<<>>}
    ELSE LET shorter == SeqsUpTo(S, n - 1)
         IN  shorter \cup {Append(sq, x) : sq \in shorter, x \in S}

LogFiles ==
    {[exists |-> FALSE, lines |-> <<>>]}
    \cup {[exists |-> TRUE, lines |-> ls] : ls \in SeqsUpTo(LogLineArgs, MaxLogLines)}

LogLevelArgs ==
    {<<>>, <<"i", "n", "f", "o">>, <<" ", "I", "N", "F", "O">>, <<"E", "R", "R", "O", "R">>, <<"T", "R", "A", "C", "E">>, <<" ">>}
LogQueryArgs == {<<>>, <<"O", "K">>, <<"r">>}
LogOffsetArgs == -1 .. 2
LogLimitArgs == -1 .. MaxLogLines

InitLogs ==
    /\ users = EmptyTable
    /\ services = {}
    /\ bookings = EmptyTable
    /\ resp = Response("", 0, "", None)
    /\ pc = [p \in Procs |-> "idle"]
    /\ \E file \in LogFiles, level \in LogLevelArgs, query \in LogQueryArgs,
          offset \in LogOffsetArgs, limit \in LogLimitArgs :
          local = [p \in Procs |->
                    IF p = 1
                    THEN [file |-> file, level |-> level, query |-> query,
                          offset |-> offset, limit |-> limit]
                    ELSE NoLocal]

GetLogs ==
    /\ pc[1] = "idle"
    /\ get_logs(local[1].file, local[1].level, local[1].query,
                local[1].offset, local[1].limit)
    /\ pc' = [pc EXCEPT ![1] = "done"]
    /\ UNCHANGED local

NextLogs == GetLogs

SpecLogs == InitLogs /\ [][NextLogs]_vars

\* ================================================================ claims
Active(b) == b.status \in {PENDING, CONFIRMED}
Overlap(a, b) == a.start_time < b.end_time /\ a.end_time > b.start_time
ExcludeArgs == {None, 0} \cup BookingIdArgs

\* C1: in every reachable state no two distinct pending or confirmed bookings
\* of one service have overlapping intervals [start_time, end_time).
C1_NoOverlappingActive ==
    \A a \in DOMAIN bookings, b \in DOMAIN bookings :
        (/\ a # b
         /\ bookings[a].service_id = bookings[b].service_id
         /\ Active(bookings[a])
         /\ Active(bookings[b]))
        => ~Overlap(bookings[a], bookings[b])

\* C2: for every store content and every (service, start, end, exclusion),
\* check_availability is true exactly when no stored booking of the service
\* that is pending or confirmed, and is not the excluded one when an exclusion
\* is given, starts before end and ends after start.
C2_CheckAvailabilityIff ==
    \A s \in ServiceIdArgs, st \in Times, et \in Times, ex \in ExcludeArgs :
        check_availability(bookings, s, st, et, ex)
        <=> ~ \E id \in DOMAIN bookings :
                /\ bookings[id].service_id = s
                /\ Active(bookings[id])
                /\ (ex = None \/ id # ex)
                /\ bookings[id].start_time < et
                /\ bookings[id].end_time > st

\* A stored active booking blocks its own interval, and no longer does when it
\* is the excluded one; another service is free.
C2_Witness ==
    \E id \in DOMAIN bookings :
        LET b == bookings[id]
        IN  /\ Active(b)
            /\ b.start_time < b.end_time
            /\ ~check_availability(bookings, b.service_id, b.start_time, b.end_time, None)
            /\ check_availability(bookings, b.service_id, b.start_time, b.end_time, id)
            /\ \E s \in ServiceIdArgs :
                  check_availability(bookings, s, b.start_time, b.end_time, None)

\* C3: a client that was told "available" inserts its booking in its second
\* step whatever the store holds by then, so two clients whose checks both ran
\* before either insert both insert overlapping pending bookings.
C3_InsertAfterStaleCheck ==
    [][\A p \in Procs :
        (/\ pc[p] = "checked"
         /\ pc'[p] = "done"
         /\ local[p].available)
        => \E id \in (DOMAIN bookings') \ (DOMAIN bookings) :
              /\ bookings'[id].service_id = local[p].service_id
              /\ bookings'[id].start_time = local[p].start_time
              /\ bookings'[id].end_time = local[p].end_time
              /\ bookings'[id].status = PENDING]_vars

\* Both clients are done, both saw "available", and the store holds their two
\* overlapping pending bookings on one service.
C3_Witness ==
    /\ \A p \in Procs : pc[p] = "done" /\ local[p].available
    /\ \E a \in DOMAIN bookings, b \in DOMAIN bookings :
          /\ a # b
          /\ bookings[a].service_id = bookings[b].service_id
          /\ bookings[a].status = PENDING
          /\ bookings[b].status = PENDING
          /\ bookings[a].start_time < bookings[a].end_time
          /\ bookings[b].start_time < bookings[b].end_time
          /\ Overlap(bookings[a], bookings[b])

NotFound(op, what) == Response(op, 404, what, None)

\* C4 as stated: an unknown user gives 404 naming the user, an unknown service
\* gives 404 naming the service, and neither inserts a booking.
C4_Original ==
    [][resp'.op = "create_booking" =>
       \A body \in RefsCreateBodies :
        create_booking(body) =>
            /\ body.user_id \notin DOMAIN users =>
                  (resp' = NotFound("create_booking", "User not found")
                   /\ bookings' = bookings)
            /\ body.service_id \notin services =>
                  (resp' = NotFound("create_booking", "Service not found")
                   /\ bookings' = bookings)]_vars

\* C4 (amended): an unknown user gives 404 naming the user; a known user with
\* an unknown service gives 404 naming the service; neither inserts a booking.
C4_NotFoundUserThenService ==
    [][resp'.op = "create_booking" =>
       \A body \in RefsCreateBodies :
        create_booking(body) =>
            /\ body.user_id \notin DOMAIN users =>
                  (resp' = NotFound("create_booking", "User not found")
                   /\ bookings' = bookings)
            /\ (body.user_id \in DOMAIN users /\ body.service_id \notin services) =>
                  (resp' = NotFound("create_booking", "Service not found")
                   /\ bookings' = bookings)]_vars

\* A create request of an existing user was refused for its service.
C4_Witness ==
    /\ resp = NotFound("create_booking", "Service not found")
    /\ DOMAIN users # {}

\* C5: every booking the create operation inserts has status pending right
\* after the creation, whatever the body carried.
C5_CreatedIsPending ==
    [][resp'.op = "create_booking" =>
        \A id \in (DOMAIN bookings') \ (DOMAIN bookings) :
            bookings'[id].status = PENDING]_vars

\* A booking was just created, next to an older one that is not pending.
C5_Witness ==
    /\ resp.op = "create_booking"
    /\ resp.code = 201
    /\ resp.id \in DOMAIN bookings
    /\ bookings[resp.id].status = PENDING
    /\ \E o \in DOMAIN bookings : bookings[o].status # PENDING

\* C6: a status update with a value outside the four statuses ends 400 with
\* detail "Invalid status", for any booking id, and changes no booking.
C6_InvalidStatusIs400 ==
    [][resp'.op = "update_booking_status" =>
       \A id \in BookingIdArgs, st \in StatusArgs \ BookingStatus :
        update_booking_status(id, st) =>
            /\ resp'.code = 400
            /\ resp'.detail = "Invalid status"
            /\ bookings' = bookings]_vars

\* C7: a status update with a valid value on an id that is not stored ends 404
\* and changes no booking.
C7_MissingBookingIs404 ==
    [][resp'.op = "update_booking_status" =>
       \A id \in BookingIdArgs, st \in BookingStatus :
        (update_booking_status(id, st) /\ id \notin DOMAIN bookings) =>
            /\ resp'.code = 404
            /\ bookings' = bookings]_vars

\* C8: for an existing booking and any current and requested status among the
\* four, the status update succeeds and the booking then has the requested
\* status.
C8_AnyTransitionAccepted ==
    [][resp'.op = "update_booking_status" =>
       \A id \in BookingIdArgs, st \in BookingStatus :
        (update_booking_status(id, st) /\ id \in DOMAIN bookings) =>
            /\ resp'.code = 200
            /\ id \in DOMAIN bookings'
            /\ bookings'[id].status = st]_vars

\* A status update just succeeded and left the booking pending: it was
\* requested on a booking the store held, back to the initial status.
C8_Witness ==
    /\ resp.op = "update_booking_status"
    /\ resp.code = 200
    /\ bookings[resp.id].status = PENDING

\* C9: a field update on an existing booking sets each supplied field to the
\* supplied value and leaves each omitted field as it was.
C9_SuppliedFieldsAreSet ==
    [][resp'.op = "update_booking" =>
       \A id \in BookingIdArgs, fields \in FieldsUpdateBodies :
        (update_booking(id, fields) /\ id \in DOMAIN bookings) =>
            \A f \in BookingUpdate :
                bookings'[id][f] =
                    IF f \in DOMAIN fields THEN fields[f] ELSE bookings[id][f]]_vars

\* C10: deleting an id that is not stored ends 404 and leaves the store as it
\* was; deleting a stored id removes that booking and nothing else.
C10_DeleteExactlyOne ==
    [][resp'.op = "delete_booking" =>
       \A id \in BookingIdArgs :
        delete_booking(id) =>
            IF id \notin DOMAIN bookings
            THEN resp'.code = 404 /\ store' = store
            ELSE /\ resp'.code = 204
                 /\ DOMAIN bookings' = (DOMAIN bookings) \ {id}
                 /\ \A o \in DOMAIN bookings' : bookings'[o] = bookings[o]
                 /\ users' = users
                 /\ services' = services]_vars

\* A booking was just deleted and another one is still stored.
C10_Witness ==
    /\ resp.op = "delete_booking"
    /\ resp.code = 204
    /\ DOMAIN bookings # {}

\* C11: when every pending or confirmed booking of a service ends at or before
\* start or starts at or after end, check_availability(service, start, end) is
\* true; an interval touching a stored booking's end or start is available.
C11_TouchingIntervalsAvailable ==
    \A s \in ServiceIdArgs, st \in Times, et \in Times :
        (\A id \in DOMAIN bookings :
            (bookings[id].service_id = s /\ Active(bookings[id]))
            => (bookings[id].end_time <= st \/ bookings[id].start_time >= et))
        => check_availability(bookings, s, st, et, None)

\* One stored active booking is followed by a free interval that starts at its
\* end, another one is preceded by a free interval that ends at its start.
C11_Witness ==
    /\ \E id \in DOMAIN bookings, et \in Times :
          LET b == bookings[id]
          IN  /\ Active(b)
              /\ b.start_time < b.end_time
              /\ b.end_time < et
              /\ check_availability(bookings, b.service_id, b.end_time, et, None)
    /\ \E id \in DOMAIN bookings, st \in Times :
          LET b == bookings[id]
          IN  /\ Active(b)
              /\ b.start_time < b.end_time
              /\ st < b.start_time
              /\ check_availability(bookings, b.service_id, st, b.start_time, None)

\* C12: for every stored booking X that overlaps no other pending or confirmed
\* booking of its service, check_availability(X.service_id, X.start_time,
\* X.end_time, exclude_booking_id = X.id) is true, whatever id X has.
C12_ExcludingSelfAvailable ==
    \A x \in DOMAIN bookings :
        (\A o \in (DOMAIN bookings) \ {x} :
            (bookings[o].service_id = bookings[x].service_id /\ Active(bookings[o]))
            => ~Overlap(bookings[o], bookings[x]))
        => check_availability(bookings, bookings[x].service_id,
                              bookings[x].start_time, bookings[x].end_time, x)

\* A stored active booking with the largest id next to a touching active
\* booking of its service: its interval is taken unless it is excluded.
C12_Witness ==
    \E x \in DOMAIN bookings, o \in DOMAIN bookings :
        /\ x = MaxBookings
        /\ o # x
        /\ Active(bookings[x])
        /\ Active(bookings[o])
        /\ bookings[o].service_id = bookings[x].service_id
        /\ bookings[x].start_time < bookings[x].end_time
        /\ bookings[o].start_time < bookings[o].end_time
        /\ ~Overlap(bookings[o], bookings[x])
        /\ ~check_availability(bookings, bookings[x].service_id,
                               bookings[x].start_time, bookings[x].end_time, None)
        /\ check_availability(bookings, bookings[x].service_id,
                              bookings[x].start_time, bookings[x].end_time, x)

\* The table without its cancelled and completed rows.
ActiveRows(tbl) == [i \in {id \in DOMAIN tbl : Active(tbl[id])} |-> tbl[i]]

\* C13: cancelled and completed bookings never block: every availability query
\* gives the same result on the store and on the store without its cancelled
\* and completed rows, and a booking whose status was just updated to
\* cancelled does not block its own interval.
C13_InactiveNeverBlock ==
    /\ \A s \in ServiceIdArgs, st \in Times, et \in Times, ex \in ExcludeArgs :
          check_availability(bookings, s, st, et, ex)
          = check_availability(ActiveRows(bookings), s, st, et, ex)
    /\ (/\ resp.op = "update_booking_status"
        /\ resp.code = 200
        /\ bookings[resp.id].status = CANCELLED)
       => LET b == bookings[resp.id]
          IN  check_availability(bookings, b.service_id, b.start_time, b.end_time, None)
              = check_availability(Remove(bookings, resp.id), b.service_id,
                                   b.start_time, b.end_time, None)

\* A booking with a proper interval was just cancelled and its interval is
\* available, next to a completed booking whose interval is available too.
C13_Witness ==
    /\ resp.op = "update_booking_status"
    /\ resp.code = 200
    /\ bookings[resp.id].status = CANCELLED
    /\ bookings[resp.id].start_time < bookings[resp.id].end_time
    /\ check_availability(bookings, bookings[resp.id].service_id,
                          bookings[resp.id].start_time, bookings[resp.id].end_time, None)
    /\ \E c \in DOMAIN bookings :
          /\ bookings[c].status = COMPLETED
          /\ bookings[c].start_time < bookings[c].end_time
          /\ check_availability(bookings, bookings[c].service_id,
                                bookings[c].start_time, bookings[c].end_time, None)

\* The bookings table that holds the row of id and nothing else.
Only(id) == Insert(EmptyTable, id, bookings[id])

\* C14: for two stored pending or confirmed bookings A and B of one service
\* with start < end, B's interval is unavailable with only A stored exactly
\* when A's interval is unavailable with only B stored, and exactly when
\* A.start_time < B.end_time and A.end_time > B.start_time.
C14_ConflictSymmetric ==
    \A a \in DOMAIN bookings, b \in DOMAIN bookings :
        LET A == bookings[a]
            B == bookings[b]
            BwhenA == ~check_availability(Only(a), B.service_id, B.start_time, B.end_time, None)
            AwhenB == ~check_availability(Only(b), A.service_id, A.start_time, A.end_time, None)
        IN  (/\ a # b
             /\ A.service_id = B.service_id
             /\ Active(A) /\ Active(B)
             /\ A.start_time < A.end_time
             /\ B.start_time < B.end_time)
            => /\ BwhenA <=> AwhenB
               /\ BwhenA <=> (A.start_time < B.end_time /\ A.end_time > B.start_time)

\* Two stored active bookings of one service with different overlapping
\* intervals, each unavailable when the other is stored.
C14_Witness ==
    \E a \in DOMAIN bookings, b \in DOMAIN bookings :
        LET A == bookings[a]
            B == bookings[b]
        IN  /\ a # b
            /\ A.service_id = B.service_id
            /\ Active(A) /\ Active(B)
            /\ A.start_time < A.end_time
            /\ B.start_time < B.end_time
            /\ A.start_time # B.start_time
            /\ ~check_availability(Only(a), B.service_id, B.start_time, B.end_time, None)
            /\ ~check_availability(Only(b), A.service_id, A.start_time, A.end_time, None)

\* C15: in every reachable state every stored booking has
\* start_time < end_time, after any sequence of creates and field updates.
C15_StartBeforeEnd ==
    \A id \in DOMAIN bookings :
        bookings[id].start_time < bookings[id].end_time

\* C16: in every reachable state the status of every stored booking is one of
\* pending, confirmed, cancelled, completed, whatever creates, field updates,
\* status updates (valid or invalid) and deletes were requested.
C16_StatusInClosedSet ==
    \A id \in DOMAIN bookings :
        bookings[id].status \in {"pending", "confirmed", "cancelled", "completed"}

\* A status update was just refused while the store holds a full table of
\* bookings, one of them no longer pending.
C16_Witness ==
    /\ resp.op = "update_booking_status"
    /\ resp.code >= 400
    /\ DOMAIN bookings = 1 .. MaxBookings
    /\ \E id \in DOMAIN bookings : bookings[id].status # PENDING

LifecycleOps ==
    {"create_booking", "update_booking", "update_booking_status", "delete_booking"}

\* C17: a create, field update, status update or delete of a booking that
\* ends with an error response leaves users, services and bookings exactly as
\* they were before the request.
C17_ErrorLeavesStore ==
    [][(resp'.op \in LifecycleOps /\ resp'.code >= 400) => store' = store]_vars

\* A field update of a stored booking just failed at commit, after its setattr
\* loop had run.
C17_Witness ==
    /\ resp.op = "update_booking"
    /\ resp.code = 500
    /\ DOMAIN bookings # {}

\* The arguments of the call whose answer a caller holds.
CallArgs(l) ==
    <<l.service_id, l.start_time, l.end_time, l.exclude_booking_id>>

\* C18: a call of check_availability, whatever its arguments, leaves users,
\* services and bookings as they were, and its answer equals the answer any
\* other caller holds for the same arguments on the same store content.
C18_CheckIsReadOnly ==
    [][\A p \in Procs :
        (pc'[p] = "checked" /\ (pc[p] = "idle" \/ local'[p] # local[p]))
        => /\ store' = store
           /\ \A q \in Procs \ {p} :
                (pc'[q] = "checked" /\ CallArgs(local'[q]) = CallArgs(local'[p]))
                => local'[q].available = local'[p].available]_vars

\* Both callers asked about the interval of a stored active booking without
\* an exclusion, were both answered "unavailable", and the booking is still
\* stored.
C18_Witness ==
    /\ \A p \in Procs : pc[p] = "checked" /\ ~local[p].available
    /\ CallArgs(local[1]) = CallArgs(local[2])
    /\ local[1].exclude_booking_id = None
    /\ \E id \in DOMAIN bookings :
          /\ Active(bookings[id])
          /\ bookings[id].service_id = local[1].service_id
          /\ bookings[id].start_time = local[1].start_time
          /\ bookings[id].end_time = local[1].end_time

ListOps == {"get_bookings", "get_users", "get_services"}

\* C20: whatever limit a list request for bookings, users or services carries,
\* the response holds at most MAX_PAGE_SIZE records.
C20_PageWithinMax ==
    (resp.op \in ListOps /\ resp.code = 200) => Len(resp.items) <= MAX_PAGE_SIZE

\* C21: each list endpoint answers 404 exactly when the page selected by its
\* filters, skip and limit is empty, which for a limit other than 0 is when at
\* most skip records match (records may exist), and 200 with the page
\* otherwise.
C21_EmptyPageIs404 ==
    [][/\ resp'.op = "get_bookings" =>
          \A skip \in ListSkipArgs, limit \in ListLimitArgs, u \in ListUserArgs,
             s \in ListServiceArgs, st \in ListStatusArgs :
            get_bookings(skip, limit, u, s, st) =>
                LET matching ==
                        {id \in DOMAIN bookings :
                            /\ u = None \/ bookings[id].user_id = u
                            /\ s = None \/ bookings[id].service_id = s
                            /\ st = "" \/ bookings[id].status = st}
                    page == booking_crud_get_bookings(bookings, skip, limit, u, s, st)
                IN  /\ resp'.code = 404 <=> Cardinality(matching) <= skip
                    /\ resp'.code = 404 <=> page = <<>>
                    /\ resp'.code # 404 => (resp'.code = 200 /\ resp'.items = page)
       /\ resp'.op = "get_users" =>
          \A skip \in ListSkipArgs, limit \in ListLimitArgs :
            get_users(skip, limit) =>
                LET page == user_crud_get_users(users, skip, limit)
                IN  /\ resp'.code = 404 <=> Cardinality(DOMAIN users) <= skip
                    /\ resp'.code = 404 <=> page = <<>>
                    /\ resp'.code # 404 => (resp'.code = 200 /\ resp'.items = page)
       /\ resp'.op = "get_services" =>
          \A skip \in ListSkipArgs, limit \in ListLimitArgs :
            get_services(skip, limit) =>
                LET page == service_crud_get_services(services, skip, limit)
                IN  /\ resp'.code = 404 <=> Cardinality(services) <= skip
                    /\ resp'.code = 404 <=> page = <<>>
                    /\ resp'.code # 404 => (resp'.code = 200 /\ resp'.items = page)]_vars

\* GET /users/ was just answered 404 although users are stored: skip was past
\* the end.
C21_Witness ==
    /\ resp.op = "get_users"
    /\ resp.code = 404
    /\ DOMAIN users # {}

\* C22: no two stored users ever share an email or a username, and a user
\* creation whose email a stored user already has ends 400 and adds no user.
C22_UniqueEmailAndUsername ==
    [][/\ \A a \in DOMAIN users', b \in DOMAIN users' :
            a # b => /\ users'[a].email # users'[b].email
                     /\ users'[a].username # users'[b].username
       /\ resp'.op = "create_user" =>
            \A e \in AccountEmails, u \in AccountUsernames :
                (create_user(e, u) /\ \E id \in DOMAIN users : users[id].email = e)
                => (resp'.code = 400 /\ users' = users)]_vars

\* A creation was just refused with 400 while two users are stored.
C22_Witness ==
    /\ resp.op = "create_user"
    /\ resp.code = 400
    /\ Cardinality(DOMAIN users) = 2

\* C24: in every reachable state every stored booking's user_id is the id of
\* a stored user and its service_id the id of a stored service, also after
\* users and services were deleted.
C24_ReferencesResolve ==
    \A b \in DOMAIN bookings :
        /\ bookings[b].user_id \in DOMAIN users
        /\ bookings[b].service_id \in services

\* The deletion of a user who has a booking was just attempted, after another
\* user had been deleted; the booking is still stored.
C24_Witness ==
    /\ resp.op = "delete_user"
    /\ resp.code = 500
    /\ DOMAIN users = {MaxAccounts}
    /\ \E b \in DOMAIN bookings : bookings[b].user_id = MaxAccounts

\* While the booking a client created is stored, fetching its id answers 200
\* with the user_id and service_id the creation returned.
FetchWhileStored ==
    \A p \in Procs :
        (pc[p] = "created" /\ get_booking(local[p].id))
        => /\ resp'.code = 200
           /\ resp'.id = local[p].id
           /\ resp'.user_id = local[p].user_id
           /\ resp'.service_id = local[p].service_id

\* Fetching or deleting the id of a client whose pc is in states answers 404.
GoneIs404(states) ==
    \A p \in Procs :
        (pc[p] \in states /\ (get_booking(local[p].id) \/ delete_booking(local[p].id)))
        => resp'.code = 404

\* C23: a created booking is fetched by its id with its user_id and service_id
\* until it is deleted, and after its deletion every fetch or delete of that id
\* answers 404.
C23_FetchUntilDeletedThen404 ==
    [][resp'.op \in {"get_booking", "delete_booking"} =>
        (FetchWhileStored /\ GoneIs404({"deleted", "reissued"}))]_vars

\* C25: in the booking statistics total_bookings is the number of stored
\* bookings, status_distribution maps each status present to the number of
\* bookings with it, revenue.total is the sum of total_price over completed
\* bookings only, and both revenue figures are 0 when no booking is completed.
C25_StatsTotals ==
    [][resp'.op = "get_booking_stats" =>
        LET st == resp'.stats
            completed == {id \in DOMAIN bookings : bookings[id].status = COMPLETED}
        IN  /\ st.total_bookings = Cardinality(DOMAIN bookings)
            /\ DOMAIN st.status_distribution =
                   {s \in BookingStatus : \E id \in DOMAIN bookings : bookings[id].status = s}
            /\ \A s \in DOMAIN st.status_distribution :
                   st.status_distribution[s] =
                       Cardinality({id \in DOMAIN bookings : bookings[id].status = s})
            /\ st.revenue.total = SumPrice(bookings, completed)
            /\ completed = {} =>
                   /\ st.revenue.total = 0
                   /\ st.revenue.average_per_booking.num = 0]_vars

\* Statistics were answered with one completed and one other booking stored,
\* both priced: the revenue is the completed one's price.
C25_Witness ==
    /\ resp.op = "get_booking_stats"
    /\ resp.stats.total_bookings = 2
    /\ Cardinality(DOMAIN resp.stats.status_distribution) = 2
    /\ resp.stats.revenue.total = 20
    /\ \E id \in DOMAIN bookings : bookings[id].status # COMPLETED /\ bookings[id].total_price > 0

\* The calendar month k months before the month of dt.
MonthsBefore(dt, k) ==
    LET n == fromordinal[dt].year * 12 + (fromordinal[dt].month - 1) - k
    IN  [year |-> n \div 12, month |-> (n % 12) + 1]

\* C26: for every current date the monthly_trends holds exactly 12 entries, one
\* for each of the 12 consecutive calendar months ending with the current one,
\* each counting the bookings whose booking_date lies in that calendar month.
C26_TwelveCalendarMonths ==
    [][resp'.op = "get_booking_stats" =>
        \A now \in NowArgs :
            get_booking_stats(now) =>
                LET trends == resp'.stats.monthly_trends
                IN  /\ Len(trends) = 12
                    /\ {trends[i].month : i \in 1 .. 12} =
                           {MonthsBefore(now, k) : k \in 0 .. 11}
                    /\ \A i \in 1 .. 12 :
                           trends[i].count =
                               Cardinality({id \in DOMAIN bookings :
                                   strftime_Ym(bookings[id].booking_date) = trends[i].month})]_vars

\* C27: booking creation validates the user before the service: with both ids
\* unknown the outcome is the user not-found error, the outcome for an unknown
\* user is the same for every service id, and a not-found outcome is 404,
\* never 400.
C27_UserCheckedFirst ==
    [][resp'.op = "create_booking" =>
       \A body \in RefsCreateBodies :
        create_booking(body) =>
            /\ (body.user_id \notin DOMAIN users /\ body.service_id \notin services)
                  => resp' = NotFound("create_booking", "User not found")
            /\ body.user_id \notin DOMAIN users
                  => \A s \in ServiceIdArgs :
                        create_booking([body EXCEPT !.service_id = s])
            /\ (body.user_id \notin DOMAIN users \/ body.service_id \notin services)
                  => (resp'.code = 404 /\ resp'.code # 400)]_vars

\* A creation was refused for its user while no service was stored at all.
C27_Witness ==
    /\ resp = NotFound("create_booking", "User not found")
    /\ services = {}
    /\ users = EmptyTable

\* C28: a field update never changes a booking's id, user_id, service_id or
\* status, and never changes a booking other than the addressed one, whatever
\* fields the request carries.
C28_UpdateKeepsIdentity ==
    [][resp'.op = "update_booking" =>
        /\ DOMAIN bookings' = DOMAIN bookings
        /\ \A id \in DOMAIN bookings :
              /\ bookings'[id].id = bookings[id].id
              /\ bookings'[id].user_id = bookings[id].user_id
              /\ bookings'[id].service_id = bookings[id].service_id
              /\ bookings'[id].status = bookings[id].status
              /\ id # resp'.id => bookings'[id] = bookings[id]]_vars

\* A field update just succeeded and set the notes of a booking next to another
\* booking that has none.
C28_Witness ==
    /\ resp.op = "update_booking"
    /\ resp.code = 200
    /\ bookings[resp.id].notes = 7
    /\ \E o \in DOMAIN bookings : bookings[o].notes = None

\* C29: a successful status update changes only the status of the addressed
\* booking: its other fields and every other booking, user and service are
\* unchanged.
C29_StatusUpdateOnlyStatus ==
    [][(resp'.op = "update_booking_status" /\ resp'.code = 200) =>
        /\ users' = users
        /\ services' = services
        /\ DOMAIN bookings' = DOMAIN bookings
        /\ \A id \in DOMAIN bookings :
              IF id = resp'.id
              THEN \A f \in (DOMAIN bookings[id]) \ {"status"} :
                      bookings'[id][f] = bookings[id][f]
              ELSE bookings'[id] = bookings[id]]_vars

\* A status update just cancelled a booking that carries notes, next to
\* another booking that is still pending.
C29_Witness ==
    /\ resp.op = "update_booking_status"
    /\ resp.code = 200
    /\ bookings[resp.id].status = CANCELLED
    /\ bookings[resp.id].notes = 7
    /\ \E o \in DOMAIN bookings : bookings[o].status = PENDING

\* C30: read_logs returns (page, total): total counts the lines that contain
\* "[LEVEL]" for the given level (taken case-insensitively) and the query
\* (case-insensitively), page is the slice [offset, offset + limit) of those
\* lines in file order, a negative offset counting as 0 and a limit <= 0 as
\* the default limit; a level outside the five names, or a missing file, gives ([], 0).
C30_ReadLogsPage ==
    pc[1] = "done" =>
        LET in == local[1]
            lvl == upper(strip(in.level))
            Passes(ln) ==
                /\ in.level # <<>> => Contains(<<"[">> \o lvl \o <<"]">>, ln)
                /\ in.query # <<>> => Contains(lower(in.query), lower(ln))
            Line(i) == rstrip_newline(in.file.lines[i])
            passing == {i \in 1 .. Len(in.file.lines) : Passes(Line(i))}
            off == IF in.offset < 0 THEN 0 ELSE in.offset
            lim == IF in.limit <= 0 THEN DEFAULT_LIMIT ELSE in.limit
        IN  IF \/ ~in.file.exists
               \/ (in.level # <<>> /\ \A k \in 1 .. Len(LEVELS) : LEVELS[k] # lvl)
            THEN resp.lines = <<>> /\ resp.total = 0
            ELSE /\ resp.total = Cardinality(passing)
                 /\ Len(resp.lines) = Max({0, Min(lim, resp.total - off)})
                 /\ \A n \in 1 .. Len(resp.lines) :
                       \E i \in passing :
                          /\ Cardinality({j \in passing : j < i}) = off + n - 1
                          /\ resp.lines[n] = Line(i)

\* A request with a lower-case level, a query in another case, an offset and a
\* limit was served from a three-line file: two lines pass, the page holds the
\* second.
C30_Witness ==
    /\ pc[1] = "done"
    /\ resp.op = "get_logs"
    /\ Len(local[1].file.lines) = 3
    /\ local[1].level # <<>>
    /\ local[1].level # upper(local[1].level)
    /\ local[1].query # <<>>
    /\ local[1].query # lower(local[1].query)
    /\ local[1].offset = 1
    /\ local[1].limit > 0
    /\ resp.total = 2
    /\ Len(resp.lines) = 1

====
